---------------------------- MODULE Spec2Model ----------------------------
(***************************************************************************)
(* Model of src/src/main.rs: a BLE-commanded SG90 servo lock.              *)
(*                                                                         *)
(* Two execution contexts share one std::sync::mpsc::sync_channel(1):      *)
(*   - the NimBLE host task, which runs the on_connect / on_disconnect /   *)
(*     on_write callbacks registered by init_ble (the Receiver);           *)
(*   - the main task, which runs main(): startup, then the sequencing      *)
(*     loop (the Controller).                                              *)
(* Every action below is one step of one of the two contexts; the          *)
(* interleaving of the steps is arbitrary.                                 *)
(***************************************************************************)
EXTENDS Naturals, Sequences, FiniteSets

(***************************************************************************)
(* Bounds of the model and constants of the program.                       *)
(***************************************************************************)

\* Longest payload, in bytes, that a peer writes to the characteristic.
MaxLen == 3

\* sync_channel(1): the channel buffers one message.
Capacity == 1

\* if degree > 180
MaxDegree == 180

\* parse::<u8>(): the largest value of the parsed type.
U8Max == 255

\* delay::FreeRtos::delay_ms(1000)
DelayMs == 1000

\* The bytes payloads are made of: '+', '-', '0', '1', '8', and 0xFF, a byte
\* that occurs in no well-formed UTF-8 text.
Alphabet == {43, 45, 48, 49, 56, 255}

\* U+FFFD, which to_str_lossy puts in place of a malformed byte.
ReplacementChar == 65533

RECURSIVE BytesOfLen(_)
BytesOfLen(n) ==
    IF n = 0 THEN {<<>>}
    ELSE {Append(s, b) : s \in BytesOfLen(n - 1), b \in Alphabet}

\* Every payload of at most MaxLen bytes over Alphabet (cmd.recv_data()).
Payloads == UNION {BytesOfLen(n) : n \in 0..MaxLen}

(***************************************************************************)
(* data.to_str_lossy().parse::<u8>()                                       *)
(***************************************************************************)

\* to_str_lossy: ASCII bytes are kept, a byte that is no part of a
\* well-formed UTF-8 sequence becomes U+FFFD.  The only non-ASCII byte of
\* Alphabet is 0xFF, which is never part of a well-formed sequence.
ToStrLossy(data) ==
    [i \in 1..Len(data) |-> IF data[i] < 128 THEN data[i] ELSE ReplacementChar]

IsDigit(c) == c >= 48 /\ c <= 57

\* The digits of s from index i on, accumulated onto acc with checked
\* multiplication and addition: an error on a non-digit or on overflow.
RECURSIVE ParseDigits(_, _, _)
ParseDigits(s, i, acc) ==
    IF i > Len(s) THEN [ok |-> TRUE, val |-> acc]
    ELSE IF ~IsDigit(s[i]) THEN [ok |-> FALSE, val |-> 0]
    ELSE IF acc * 10 + (s[i] - 48) > U8Max THEN [ok |-> FALSE, val |-> 0]
    ELSE ParseDigits(s, i + 1, acc * 10 + (s[i] - 48))

\* str::parse::<u8>: empty text and a lone sign are errors; one leading '+'
\* is accepted, a leading '-' is not (the type is unsigned).
ParseU8(s) ==
    IF Len(s) = 0 THEN [ok |-> FALSE, val |-> 0]
    ELSE IF Len(s) = 1 /\ (s[1] = 43 \/ s[1] = 45) THEN [ok |-> FALSE, val |-> 0]
    ELSE IF s[1] = 43 THEN ParseDigits(s, 2, 0)
    ELSE ParseDigits(s, 1, 0)

\* The result of data.to_str_lossy().parse::<u8>() on the bytes data.
Parse(data) == ParseU8(ToStrLossy(data))

\* The range check left out.
DegreeTooLarge_Never(degree) == FALSE

\* The range check one too far: 181 passes.
DegreeTooLarge_OffByOne(degree) == degree > MaxDegree + 1

\* The range check of the loop: a parsed degree above 180 is refused.
DegreeTooLarge(degree) == degree > MaxDegree

(***************************************************************************)
(* The f32 arithmetic of SG90::set_degree.  A positive f32 is a record     *)
(* [m, k] that stands for m / 2^k, with 2^23 <= m < 2^24 (a 24-bit         *)
(* significand); zero is [m |-> 0, k |-> 0].  Every operation rounds to    *)
(* nearest, ties to even.  All the values of set_degree lie below 2^24,    *)
(* so k is never negative, and no intermediate number reaches 2^31.        *)
(***************************************************************************)

Pow2(n) == 2 ^ n

\* quo + rem/den rounded to the nearest integer, ties to the even one.
RoundTiesEven(quo, rem, den) ==
    IF 2 * rem < den THEN quo
    ELSE IF 2 * rem > den THEN quo + 1
    ELSE IF quo % 2 = 0 THEN quo ELSE quo + 1

\* A rounded significand may have reached 2^24: that is 2^23 one binade up.
Renormalise(m, k) ==
    IF m = Pow2(24) THEN [m |-> Pow2(23), k |-> k - 1] ELSE [m |-> m, k |-> k]

\* The f32 values that occur: m / 2^k with 2^23 <= m < 2^24, or zero.
F32 == [m : Nat, k : Nat]

\* n as f32, for an integer n < 2^24 (exact): `degree as f32`,
\* `self.max_duty as f32`.
F32Scale[m \in Nat, k \in Nat] ==
    IF m >= Pow2(23) THEN [m |-> m, k |-> k] ELSE F32Scale[2 * m, k + 1]

F32FromInt(n) == IF n = 0 THEN [m |-> 0, k |-> 0] ELSE F32Scale[n, 0]

\* Binary long division of n by d, carried on until the quotient has 24
\* bits: quo + rem/d = n * 2^k / d.
LongDivide[quo \in Nat, rem \in Nat, d \in Nat, k \in Nat] ==
    IF quo >= Pow2(23) THEN [quo |-> quo, rem |-> rem, k |-> k]
    ELSE LongDivide[2 * quo + (2 * rem) \div d, (2 * rem) % d, d, k + 1]

\* The f32 quotient of the integers n and d, both exact as f32 and n < d:
\* `degree as f32 / 1800.0`, and the literal 0.025 as the f32 nearest to
\* 25/1000.
F32Div[n \in Nat, d \in Nat] ==
    IF n = 0 THEN [m |-> 0, k |-> 0]
    ELSE LET q == LongDivide[n \div d, n % d, d, 0]
         IN Renormalise(RoundTiesEven(q.quo, q.rem, d), q.k)

\* The least s with n / 2^s below 2^24.
ExcessBits[n \in Nat, s \in Nat] ==
    IF n \div Pow2(s) < Pow2(24) THEN s ELSE ExcessBits[n, s + 1]

\* The f32 sum of two f32 values whose exponents differ by 6 at most.
F32Add[x \in F32, y \in F32] ==
    IF x.m = 0 THEN y
    ELSE IF y.m = 0 THEN x
    ELSE LET k == IF x.k > y.k THEN x.k ELSE y.k
             n == x.m * Pow2(k - x.k) + y.m * Pow2(k - y.k)
             s == ExcessBits[n, 0]
         IN Renormalise(RoundTiesEven(n \div Pow2(s), n % Pow2(s), Pow2(s)), k - s)

\* The f32 product of two f32 values: the 48-bit product of the
\* significands, made of 12-bit halves, rounded to its upper 24 bits.
F32Mul[x \in F32, y \in F32] ==
    IF x.m = 0 \/ y.m = 0 THEN [m |-> 0, k |-> 0]
    ELSE LET a == x.m \div 4096
             b == x.m % 4096
             c == y.m \div 4096
             d == y.m % 4096
             mid == a * d + b * c
             low == (mid % 4096) * 4096 + b * d
             hi == a * c + mid \div 4096 + low \div Pow2(24)
             lo == low % Pow2(24)
         IN IF hi >= Pow2(23)
            THEN Renormalise(RoundTiesEven(hi, lo, Pow2(24)), x.k + y.k - 24)
            ELSE Renormalise(RoundTiesEven(2 * hi + lo \div Pow2(23),
                                           lo % Pow2(23), Pow2(23)),
                             x.k + y.k - 23)

\* `x as u32` for a positive f32 below 2^24: the fraction is cut off.
F32ToU32[x \in F32] == x.m \div Pow2(x.k)

\* `x` rounded to the nearest integer instead of cut off.
F32RoundToU32[x \in F32] == (2 * x.m + Pow2(x.k)) \div Pow2(x.k + 1)

\* set_degree with the duty rounded to the nearest level.
SetDegreeDuty_Rounded(degree, maxDuty) ==
    F32RoundToU32[F32Mul[F32Add[F32Div[degree, 1800], F32Div[25, 1000]],
                         F32FromInt(maxDuty)]]

\* set_degree with the duty cut to the 10 bits of a narrower register.
SetDegreeDuty_Wrapped(degree, maxDuty) ==
    F32ToU32[F32Mul[F32Add[F32Div[degree, 1800], F32Div[25, 1000]],
                    F32FromInt(maxDuty)]] % Pow2(10)

\* The value SG90::set_degree hands to set_duty:
\*   let duty = ((degree as f32 / 1800.0) + 0.025) * self.max_duty as f32;
\*   self.ledc.set_duty(duty as u32)
SetDegreeDuty(degree, maxDuty) ==
    F32ToU32[F32Mul[F32Add[F32Div[degree, 1800], F32Div[25, 1000]],
                    F32FromInt(maxDuty)]]

(***************************************************************************)
(* State.                                                                  *)
(***************************************************************************)
VARIABLES
    pc,             \* the line main() is at
    ble_started,    \* init_ble has registered the callbacks and advertises
    connected,      \* a peer is connected to the BLE server
    chan,           \* the messages buffered in the sync_channel
    receiver_alive, \* the Receiver end of the channel has not been dropped
    degree,         \* main's local `degree` (0 while it is out of scope)
    max_duty,       \* SG90.max_duty (0 until SG90::new has cached it)
    duty,           \* the duty the LEDC channel was last programmed with
    programmed,     \* some set_duty call has succeeded
    position,       \* the degree of the last successful set_degree
    ops,            \* the actuator calls and delays of main since startup
                    \* or since the last recv, in order
    log             \* what the last step logged

vars == <<pc, ble_started, connected, chan, receiver_alive, degree,
          max_duty, duty, programmed, position, ops, log>>

ctl == <<pc, degree, max_duty, duty, programmed, position, ops>>

\* What ledc.get_max_duty() returns for Resolution::Bits14 where 14 bits is
\* the widest resolution of the LEDC timers (the ESP32-C3 and its kin):
\* 2^14 - 1.
MaxDuty == 16383

\* The drivers of the chips with wider timers report 2^14 for Bits14.
MaxDuties == {MaxDuty, MaxDuty + 1}

SetOp(d, ok) == [op |-> "set_degree", arg |-> d, ok |-> ok]
DelayOp == [op |-> "delay_ms", arg |-> DelayMs, ok |-> TRUE]

Init ==
    /\ pc = "init_ble"
    /\ ble_started = FALSE
    /\ connected = FALSE
    /\ chan = <<>>
    /\ receiver_alive = TRUE
    /\ degree = 0
    /\ max_duty = 0
    /\ duty = 0
    /\ programmed = FALSE
    /\ position = 0
    /\ ops = <<>>
    /\ log = <<>>

(***************************************************************************)
(* The Receiver: callbacks run by the BLE host task.                       *)
(***************************************************************************)

OnConnect ==
    /\ ble_started
    /\ ~connected
    /\ connected' = TRUE
    /\ log' = <<"info: Connected to device">>
    /\ UNCHANGED <<pc, ble_started, chan, receiver_alive, degree,
                   max_duty, duty, programmed, position, ops>>

\* A disconnect that throws away the command waiting in the channel.
OnDisconnect_Flush ==
    /\ ble_started
    /\ connected
    /\ connected' = FALSE
    /\ chan' = <<>>
    /\ log' = <<"info: Disconnected from device">>
    /\ UNCHANGED <<pc, ble_started, receiver_alive, degree,
                   max_duty, duty, programmed, position, ops>>

OnDisconnect ==
    /\ ble_started
    /\ connected
    /\ connected' = FALSE
    /\ log' = <<"info: Disconnected from device">>
    /\ UNCHANGED <<pc, ble_started, chan, receiver_alive, degree,
                   max_duty, duty, programmed, position, ops>>

\* try_send without the check of the buffer: an unbounded channel.
TrySendOk_Unbounded == receiver_alive

\* SyncSender::try_send: an error when the receiver is gone or the buffer
\* is full, and never a wait.
TrySendOk == receiver_alive /\ Len(chan) < Capacity

\* send in place of try_send: the callback waits for room in the buffer.
OnWrite_Blocking(data) ==
    /\ ble_started
    /\ connected
    /\ IF receiver_alive
       THEN /\ Len(chan) < Capacity
            /\ chan' = Append(chan, data)
            /\ log' = <<"info: Received command">>
       ELSE /\ chan' = chan
            /\ log' = <<"info: Received command", "warn: is busy">>
    /\ UNCHANGED <<pc, ble_started, connected, receiver_alive, degree,
                   max_duty, duty, programmed, position, ops>>

\* A write that replaces the buffered message when the buffer is full.
OnWrite_Overwrite(data) ==
    /\ ble_started
    /\ connected
    /\ IF receiver_alive
       THEN /\ chan' = IF Len(chan) < Capacity THEN Append(chan, data)
                       ELSE <<data>>
            /\ log' = <<"info: Received command">>
       ELSE /\ chan' = chan
            /\ log' = <<"info: Received command", "warn: is busy">>
    /\ UNCHANGED <<pc, ble_started, connected, receiver_alive, degree,
                   max_duty, duty, programmed, position, ops>>

OnWrite(data) ==
    /\ ble_started
    /\ connected
    /\ IF TrySendOk
       THEN /\ chan' = Append(chan, data)
            /\ log' = <<"info: Received command">>
       ELSE /\ chan' = chan
            /\ log' = <<"info: Received command", "warn: is busy">>
    /\ UNCHANGED <<pc, ble_started, connected, receiver_alive, degree,
                   max_duty, duty, programmed, position, ops>>

(***************************************************************************)
(* The Controller: main().                                                 *)
(***************************************************************************)

\* main returns an error: its locals, the Receiver among them, are dropped,
\* and the messages still buffered go with it.
Exit ==
    /\ pc' = "exited"
    /\ receiver_alive' = FALSE
    /\ chan' = <<>>
    /\ degree' = 0

\* init_ble(sender)?
InitBle ==
    /\ pc = "init_ble"
    /\ \/ /\ ble_started' = TRUE
          /\ pc' = "sg90_new"
          /\ UNCHANGED <<chan, receiver_alive, degree>>
       \/ /\ ble_started' = FALSE
          /\ Exit
    /\ log' = <<>>
    /\ UNCHANGED <<connected, max_duty, duty, programmed, position, ops>>

\* Peripherals::take()? and SG90::new(..)?
Sg90New ==
    /\ pc = "sg90_new"
    /\ \/ /\ pc' = "startup_set"
          /\ max_duty' = MaxDuty
          /\ UNCHANGED <<chan, receiver_alive, degree>>
       \/ /\ Exit
          /\ UNCHANGED max_duty
    /\ log' = <<>>
    /\ UNCHANGED <<ble_started, connected, duty, programmed, position, ops>>

\* The error of set_duty dropped (let _ = ...) and the loop going on.
SetDegree_ErrorIgnored(d, next) ==
    /\ \/ /\ programmed' = TRUE
          /\ position' = d
          /\ duty' = SetDegreeDuty(d, max_duty)
          /\ ops' = Append(ops, SetOp(d, TRUE))
       \/ /\ ops' = Append(ops, SetOp(d, FALSE))
          /\ UNCHANGED <<duty, programmed, position>>
    /\ pc' = next
    /\ log' = <<>>
    /\ UNCHANGED <<ble_started, connected, chan, receiver_alive, degree,
                   max_duty>>

\* st90.set_degree(d)?, going on to line `next`: set_duty either fails and
\* leaves the register as it was, and the error leaves main, or programs
\* the duty of d.
SetDegree(d, next) ==
    /\ \/ /\ ops' = Append(ops, SetOp(d, FALSE))
          /\ Exit
          /\ UNCHANGED <<duty, programmed, position>>
       \/ /\ ops' = Append(ops, SetOp(d, TRUE))
          /\ duty' = SetDegreeDuty(d, max_duty)
          /\ programmed' = TRUE
          /\ position' = d
          /\ pc' = next
          /\ UNCHANGED <<chan, receiver_alive, degree>>
    /\ log' = <<>>
    /\ UNCHANGED <<ble_started, connected, max_duty>>

\* delay::FreeRtos::delay_ms(1000), going on to line `next`.
Delay(next) ==
    /\ pc' = next
    /\ ops' = Append(ops, DelayOp)
    /\ log' = <<>>
    /\ degree' = IF next = "recv" THEN 0 ELSE degree
    /\ UNCHANGED <<ble_started, connected, chan, receiver_alive,
                   max_duty, duty, programmed, position>>

\* The loop entered with the startup delay left out.
StartupSet_NoDelay ==
    /\ pc = "startup_set"
    /\ SetDegree(0, "recv")

\* Startup leaving the actuator at mid-travel instead of at rest.
StartupSet_Centred ==
    /\ pc = "startup_set"
    /\ SetDegree(MaxDegree \div 2, "startup_delay")

StartupSet ==
    /\ pc = "startup_set"
    /\ SetDegree(0, "startup_delay")

StartupDelay ==
    /\ pc = "startup_delay"
    /\ Delay("recv")

\* A payload that does not parse taken as degree 0 (unwrap_or_default in
\* place of the else branch).
Recv_DefaultOnError ==
    /\ pc = "recv"
    /\ receiver_alive
    /\ chan # <<>>
    /\ chan' = Tail(chan)
    /\ ops' = <<>>
    /\ LET r == Parse(Head(chan))
           d == IF r.ok THEN r.val ELSE 0
       IN IF DegreeTooLarge(d)
          THEN /\ log' = <<"warn: Invalid degree">>
               /\ pc' = "recv"
               /\ degree' = 0
          ELSE /\ log' = <<"info: Set degree">>
               /\ pc' = "move"
               /\ degree' = d
    /\ UNCHANGED <<ble_started, connected, receiver_alive, max_duty, duty,
                   programmed, position>>

\* let data = receiver.recv()?; and the parse and range check on it.  The
\* sender lives in the on_write closure for ever, so recv never fails: it
\* waits until a message is buffered.
Recv ==
    /\ pc = "recv"
    /\ receiver_alive
    /\ chan # <<>>
    /\ chan' = Tail(chan)
    /\ ops' = <<>>
    /\ LET data == Head(chan)
           r == Parse(data)
       IN IF r.ok
          THEN IF DegreeTooLarge(r.val)
               THEN /\ log' = <<"warn: Invalid degree">>
                    /\ pc' = "recv"
                    /\ degree' = 0
               ELSE /\ log' = <<"info: Set degree">>
                    /\ pc' = "move"
                    /\ degree' = r.val
          ELSE /\ log' = <<"warn: Invalid command">>
               /\ pc' = "recv"
               /\ degree' = 0
    /\ UNCHANGED <<ble_started, connected, receiver_alive, max_duty, duty,
                   programmed, position>>

\* The loop going back to recv right after the return, the settle delay
\* forgotten.
Return_NoSettle ==
    /\ pc = "return"
    /\ SetDegree(0, "recv")
    /\ degree' = 0

Move ==
    /\ pc = "move"
    /\ SetDegree(degree, "dwell")

\* The dwell given up for a command that arrived in the meantime.
Dwell_Preempted ==
    /\ pc = "dwell"
    /\ IF chan # <<>>
       THEN /\ pc' = "recv"
            /\ degree' = 0
            /\ log' = <<>>
            /\ UNCHANGED <<ble_started, connected, chan, receiver_alive,
                           max_duty, duty, programmed, position, ops>>
       ELSE Delay("return")

Dwell ==
    /\ pc = "dwell"
    /\ Delay("return")

\* The return to rest left out: only the wait is made.
Return_Forgotten ==
    /\ pc = "return"
    /\ Delay("settle")

Return ==
    /\ pc = "return"
    /\ SetDegree(0, "settle")

\* The second delay, after which the loop body ends and `degree` goes out
\* of scope.
Settle ==
    /\ pc = "settle"
    /\ Delay("recv")

Controller ==
    \/ InitBle
    \/ Sg90New
    \/ StartupSet
    \/ StartupDelay
    \/ Recv
    \/ Move
    \/ Dwell
    \/ Return
    \/ Settle

\* The bytes a peer may write.  A failed try_send drops the bytes unread, so
\* every payload leads to the same state then, and one stands for them all.
Writable == IF TrySendOk THEN Payloads ELSE {<<>>}

Receiver ==
    \/ OnConnect
    \/ OnDisconnect
    \/ \E data \in Writable : OnWrite(data)

Next == Controller \/ Receiver

Spec == Init /\ [][Next]_vars

\* The main task is scheduled whenever it can run: FreeRTOS gives it the
\* processor when its delay ends or a message arrives.
FairSpec == Spec /\ WF_vars(Controller)

(***************************************************************************)
(* The SG90 driver on its own: a freshly built SG90, on either kind of     *)
(* chip, and one call of set_degree with any u8.                           *)
(***************************************************************************)
DutyInit ==
    /\ pc = "startup_set"
    /\ ble_started = TRUE
    /\ connected = FALSE
    /\ chan = <<>>
    /\ receiver_alive = TRUE
    /\ degree = 0
    /\ max_duty \in MaxDuties
    /\ duty = 0
    /\ programmed = FALSE
    /\ position = 0
    /\ ops = <<>>
    /\ log = <<>>

SetAnyDegree ==
    /\ pc = "startup_set"
    /\ \E d \in 0..U8Max : SetDegree(d, "startup_delay")

DutySpec == DutyInit /\ [][SetAnyDegree]_vars

(***************************************************************************)
(* Vocabulary of the properties.                                           *)
(***************************************************************************)

\* The lines of main before the sequencing loop.
Startup == {"init_ble", "sg90_new", "startup_set", "startup_delay"}

\* The lines of main between taking a valid command and the end of its
\* move-dwell-return sequence.
InSequence == {"move", "dwell", "return", "settle"}

\* A PositionCommand: bytes that parse to an integer of [0,180].
IsPositionCommand(data) == Parse(data).ok /\ Parse(data).val \in 0..180

Busy == <<"info: Received command", "warn: is busy">>

\* A set_degree call that returned an error.
Failed(o) == o.op = "set_degree" /\ ~o.ok

\* The commands accepted by the Receiver whose handling has not finished.
InFlight == Len(chan) + (IF pc \in InSequence THEN 1 ELSE 0)

(***************************************************************************)
(* C1, C2: the busy policy.                                                *)
(***************************************************************************)

\* C1: a write that arrives while a move-dwell-return sequence is running
\* fails to be sent: the channel is left as it was and "is busy" is logged.
C1_BusyDuringSequence ==
    [][\A data \in Writable :
          (pc \in InSequence /\ OnWrite(data)) => (chan' = chan /\ log' = Busy)]_vars

\* C2: at most one accepted command is in flight: buffered in the channel
\* or taken by the Controller and not yet finished.
C2_AtMostOneInFlight == InFlight <= 1

(***************************************************************************)
(* C3: where payloads are validated.                                       *)
(***************************************************************************)

\* C3 as stated: every item held by the channel is a PositionCommand.
C3_ChannelHoldsPositionCommands ==
    \A i \in 1..Len(chan) : IsPositionCommand(chan[i])

\* C3, amended: the channel holds the bytes as written, and the Controller
\* validates them when it takes them: it goes on to move exactly when the
\* bytes are a PositionCommand, and then with the parsed degree; so the
\* degree of a running sequence is in [0,180].
C3_ValidatedByController ==
    [][/\ Recv =>
            LET data == Head(chan)
            IN /\ pc' = "move" <=> IsPositionCommand(data)
               /\ pc' = "move" => degree' = Parse(data).val
               /\ pc' # "move" => pc' = "recv"
       /\ pc' \in InSequence => degree' \in 0..180]_vars

\* The bytes "-1" sit in the channel while the command "18", taken and
\* validated, is about to be carried out.
C3_Witness ==
    /\ pc = "move"
    /\ degree = 18
    /\ chan = <<<<45, 49>>>>

(***************************************************************************)
(* C4: the order of a sequence.                                            *)
(***************************************************************************)

\* The calls of a whole sequence for degree d.
Sequence(d) == <<SetOp(d, TRUE), DelayOp, SetOp(0, TRUE), DelayOp>>

\* C4: after taking a valid command the Controller programs the duty of d,
\* dwells, programs the duty of 0 and settles, in this order and with
\* nothing else in between, and takes nothing from the channel until it is
\* back at recv.
C4_SequenceOrder ==
    [][/\ pc' = "move" => ops' = <<>>
       /\ pc' = "dwell" => ops' = SubSeq(Sequence(degree'), 1, 1)
       /\ pc' = "return" => ops' = SubSeq(Sequence(degree'), 1, 2)
       /\ pc' = "settle" => ops' = SubSeq(Sequence(degree'), 1, 3)
       /\ (pc = "settle" /\ pc' = "recv") => ops' = Sequence(degree)
       /\ (pc \in InSequence /\ pc' # "exited") => Len(chan') >= Len(chan)
       /\ (pc \in InSequence /\ pc' = "recv") => pc = "settle"]_vars

\* A sequence for 18 degrees has run to its end.
C4_Witness ==
    /\ pc = "recv"
    /\ ops = Sequence(18)

(***************************************************************************)
(* C5: invalid commands.                                                   *)
(***************************************************************************)

Warnings == {<<"warn: Invalid degree">>, <<"warn: Invalid command">>}

\* C5: taking a payload that does not parse, or parses to more than 180,
\* writes nothing to the actuator, logs one warning, and leaves the
\* Controller waiting on the channel with no delay made.
C5_InvalidCommand ==
    [][(Recv /\ ~IsPositionCommand(Head(chan))) =>
          /\ UNCHANGED <<programmed, position>>
          /\ ops' = <<>>
          /\ log' \in Warnings
          /\ pc' = "recv"]_vars

\* The payload that does not parse has been taken and refused.
C5_Witness ==
    /\ pc = "recv"
    /\ log = <<"warn: Invalid command">>
    /\ ops = <<>>
    /\ position = 0
    /\ programmed

(***************************************************************************)
(* C6: startup.                                                            *)
(***************************************************************************)

\* C6 as stated: before the startup hold has ended no write is enqueued on
\* the channel.
C6_NothingEnqueuedInStartup == pc \in Startup => chan = <<>>

\* C6, amended: the callbacks are registered before the startup, so a write
\* may be enqueued during it; but the Controller takes nothing from the
\* channel and starts no sequence before it has driven the actuator to 0
\* and made the startup delay, and it leaves the startup only that way.
C6_NothingTakenInStartup ==
    [][/\ (pc \in Startup /\ pc' # "exited") =>
            /\ Len(chan') >= Len(chan)
            /\ pc' \in Startup \cup {"recv"}
            /\ degree' = 0
       /\ (pc \in Startup /\ pc' = "recv") =>
            /\ ops' = <<SetOp(0, TRUE), DelayOp>>
            /\ programmed' /\ position' = 0]_vars

\* The command "18" was enqueued during the startup delay and waits.
C6_Witness ==
    /\ pc = "startup_delay"
    /\ chan = <<<<49, 56>>>>

(***************************************************************************)
(* C7: run to completion.                                                  *)
(***************************************************************************)

\* C7 as stated: nothing cuts a sequence short and leaves the actuator at
\* the target: the Controller never stops with the actuator off rest.
C7_NeverLeftAtTarget == ~(pc = "exited" /\ programmed /\ position # 0)

\* C7, amended: once the duty of the target is programmed, the Controller
\* goes on, whatever is written and whoever connects or disconnects, until
\* either the actuator is driven back to 0 or programming the duty of 0
\* fails, which ends the Controller with the actuator at the target.
C7_RunsToCompletion ==
    (pc = "dwell") ~> \/ pc = "settle" /\ position = 0
                      \/ pc = "exited" /\ ops # <<>> /\ Failed(ops[Len(ops)])

\* The actuator is back at rest after a sequence during which a command
\* was written and the peer went away.
C7_Witness ==
    /\ pc = "settle"
    /\ position = 0
    /\ ops = SubSeq(Sequence(18), 1, 3)
    /\ Len(chan) = 1
    /\ ~connected

(***************************************************************************)
(* C8: hardware failure.                                                   *)
(***************************************************************************)

\* C8: a set_degree call that fails ends the Controller; the call is not
\* made again, and from then on the Controller writes nothing to the
\* actuator and takes nothing from the channel.
C8_FatalHardwareFailure ==
    [][/\ \A i \in 1..Len(ops') :
            Failed(ops'[i]) => (i = Len(ops') /\ pc' = "exited")
       /\ pc = "exited" =>
            /\ pc' = "exited"
            /\ UNCHANGED <<programmed, position, ops, degree, chan>>]_vars

\* The return to rest failed, and a write came after the Controller ended.
C8_Witness ==
    /\ pc = "exited"
    /\ ops = <<SetOp(18, TRUE), DelayOp, SetOp(0, FALSE)>>
    /\ log = Busy

(***************************************************************************)
(* C9, C10: the non-blocking send.                                         *)
(***************************************************************************)

\* C9: a write while the channel holds a command leaves the channel as it
\* is and logs "is busy".
C9_SendWhileFull ==
    [][\A data \in Writable :
          (Len(chan) = Capacity /\ OnWrite(data)) =>
              (chan' = chan /\ log' = Busy)]_vars

\* The command "18" is still in the channel after a write was refused.
C9_Witness ==
    /\ chan = <<<<49, 56>>>>
    /\ log = Busy
    /\ receiver_alive

\* C10: wherever the Controller is, a write of a connected peer can be
\* handled at once, and handling it changes nothing of the Controller or
\* the actuator.
C10_ReceiverNeverStalls ==
    (ble_started /\ connected) =>
        \A data \in Writable :
            /\ ENABLED OnWrite(data)
            /\ ~ENABLED (OnWrite(data) /\ ctl' # ctl)

\* A write was refused in the middle of a sequence, the channel being full.
C10_Witness ==
    /\ pc = "dwell"
    /\ Len(chan) = Capacity
    /\ log = Busy


(***************************************************************************)
(* C11: the duty of an angle.                                              *)
(***************************************************************************)

\* The level nearest to ((d/1800) + 0.025) * maxDuty, which is
\* maxDuty * (d + 45) / 1800.
RoundedLevel(d, maxDuty) == (2 * maxDuty * (d + 45) + 1800) \div 3600

\* C11 as stated: set-position(d), d in [0,180], programs the duty level
\* round(((d/1800) + 0.025) * max_duty).
C11_DutyRounded ==
    (programmed /\ position \in 0..MaxDegree)
        => duty = RoundedLevel(position, max_duty)

\* C11, amended: set-position(d), d in [0,180], programs the duty level
\* ((d/1800) + 0.025) * max_duty with its fraction cut off: the greatest
\* level not above max_duty * (d + 45) / 1800.
C11_DutyTruncated ==
    (programmed /\ position \in 0..MaxDegree)
        => /\ 1800 * duty <= max_duty * (position + 45)
           /\ max_duty * (position + 45) < 1800 * (duty + 1)

\* set_degree(0) has programmed 409 of 16383, where 409.575 rounds to 410.
C11_Witness ==
    /\ programmed
    /\ position = 0
    /\ max_duty = MaxDuty
    /\ duty = 409

(***************************************************************************)
(* C12: the command "0".                                                   *)
(***************************************************************************)

\* The state of the actuator: what SG90 caches and what its LEDC channel
\* was last programmed with.
actuator == <<max_duty, duty, programmed, position>>

\* The Controller is handling a command for 0 degrees.
HandlingZero == pc \in InSequence /\ degree = 0

\* C12 as stated: the handling of "0" raises no error: no step of it ends
\* the Controller.
C12_ZeroNeverFails == [][HandlingZero => pc' # "exited"]_vars

\* C12, amended: while "0" is handled the actuator is commanded to 0 and
\* no step changes the state of the actuator, so any number of "0" leave it
\* as one does; the Controller logs no warning, and it comes back to
\* waiting with the whole sequence made, unless a set_degree call fails,
\* which ends it (C8), the actuator still at 0.
C12_ZeroIsIdempotent ==
    /\ [][HandlingZero =>
            /\ position = 0
            /\ UNCHANGED actuator
            /\ Controller => log' = <<>>
            /\ pc' = "exited" => Failed(ops'[Len(ops')])]_vars
    /\ HandlingZero ~> \/ pc = "recv" /\ ops = Sequence(0) /\ position = 0
                       \/ pc = "exited" /\ position = 0

\* "0" has been handled in full, and the actuator is at rest.
C12_Witness ==
    /\ pc = "recv"
    /\ ops = Sequence(0)
    /\ position = 0

(***************************************************************************)
(* C13: ready again after a sequence.                                      *)
(***************************************************************************)

\* A sequence has just been completed: the Controller is back at recv with
\* the four calls made, and nothing has happened since.
JustCompleted == pc = "recv" /\ Len(ops) = Len(Sequence(0)) /\ log = <<>>

\* C13: the next command delivered to the Receiver after a sequence has
\* completed is enqueued (and so can be taken): the write is not refused
\* as busy.
C13_NextCommandEnqueued ==
    [][\A data \in Writable :
          (JustCompleted /\ OnWrite(data)) =>
              (chan' = Append(chan, data) /\ log' # Busy)]_vars

(***************************************************************************)
(* C14: delivery through the channel.                                      *)
(***************************************************************************)

\* C14: the channel grows only by a successful write, at its tail, and a
\* refused write leaves no trace; it shrinks only at its head, by the
\* Controller taking that payload, or when the Controller ends; what the
\* Controller acts on is the payload it removed, so each enqueued payload
\* is taken once and in order, and nothing else is; and no payload stays
\* buffered for ever: the channel is empty again and again, the payload
\* taken, or dropped with the Controller that a failure ended.
C14_ExactlyOnceInOrder ==
    /\ [][/\ log' = Busy => chan' = chan
          /\ Len(chan') > Len(chan) =>
                /\ log' = <<"info: Received command">>
                /\ chan = SubSeq(chan', 1, Len(chan))
                /\ Len(chan') = Len(chan) + 1
                /\ UNCHANGED pc
          /\ (chan' # chan /\ Len(chan') <= Len(chan)) =>
                \/ pc' = "exited" /\ pc # "exited" /\ chan' = <<>>
                \/ /\ pc = "recv"
                   /\ chan # <<>>
                   /\ chan' = Tail(chan)
                   /\ pc' = "move" <=> IsPositionCommand(Head(chan))
          /\ (pc \notin InSequence /\ pc' \in InSequence) =>
                /\ chan # <<>>
                /\ chan' = Tail(chan)
                /\ degree' = Parse(Head(chan)).val]_vars
    /\ []<>(chan = <<>>)

\* The payload "18" has been taken and is about to be carried out, and
\* "1", enqueued after it, waits for its turn.
C14_Witness ==
    /\ pc = "move"
    /\ degree = 18
    /\ position = 0
    /\ chan = <<<<49>>>>

(***************************************************************************)
(* C15: who changes what.                                                  *)
(***************************************************************************)

\* C15: no step of the Receiver (a write, enqueued or refused, a connect, a
\* disconnect) changes the state of the actuator, and a connect or a
\* disconnect changes neither the channel nor anything of the Controller:
\* the command pending and the sequence running go on as they were.
C15_OnlyControllerMoves ==
    [][/\ actuator' # actuator => ~Receiver
       /\ (OnConnect \/ OnDisconnect) => UNCHANGED <<chan, receiver_alive, ctl>>]_vars

\* The peer has just disconnected in the middle of the dwell of "18", with
\* "1" waiting in the channel.
C15_Witness ==
    /\ log = <<"info: Disconnected from device">>
    /\ ~connected
    /\ pc = "dwell"
    /\ position = 18
    /\ chan = <<<<49>>>>

(***************************************************************************)
(* C16: the duty grows with the angle.                                     *)
(***************************************************************************)

\* C16: for d1 <= d2 in [0,180] and the cached max_duty, the duty that
\* set-position(d1) programs is at most the duty programmed by
\* set-position(d2).
C16_DutyMonotone ==
    (programmed /\ position \in 0..MaxDegree)
        => \A d1 \in 0..position : SetDegreeDuty(d1, max_duty) <= duty

\* set_degree(180) has programmed a duty above the duty of 0.
C16_Witness ==
    /\ programmed
    /\ position = MaxDegree
    /\ SetDegreeDuty(0, max_duty) < duty

(***************************************************************************)
(* C17: at rest while waiting.                                             *)
(***************************************************************************)

\* The dwell phase: from the duty of the target programmed to the call that
\* programs the duty of 0.
DwellPhase == {"dwell", "return"}

\* C17 as stated: a Controller waiting on the channel has last programmed
\* 0, and the actuator is at another angle only in the dwell phase of a
\* sequence.
C17_NonZeroOnlyInDwell ==
    /\ pc = "recv" => (programmed /\ position = 0)
    /\ position # 0 => pc \in DwellPhase

\* C17, amended: a Controller waiting on the channel has last programmed
\* 0, and the actuator is at another angle only in the dwell phase of a
\* sequence, at the target of that sequence, or after the Controller was
\* ended by the failure of the call that was to bring it back to 0.
C17_RestWhileWaiting ==
    /\ pc = "recv" => (programmed /\ position = 0)
    /\ position # 0 =>
          \/ pc \in DwellPhase /\ position = degree
          \/ /\ pc = "exited"
             /\ ops # <<>>
             /\ ops[Len(ops)] = SetOp(0, FALSE)

\* The Controller waits again after a sequence for 18 degrees, at rest.
C17_Witness ==
    /\ pc = "recv"
    /\ ops = Sequence(18)
    /\ programmed
    /\ position = 0

(***************************************************************************)
(* C18: the commanded angle is in range.                                   *)
(***************************************************************************)

\* C18: whatever bytes are written, every set_degree call of the
\* Controller has an argument in [0,180], and so has the degree of the
\* command being handled and the commanded position of the actuator.
C18_AngleInRange ==
    /\ position \in 0..MaxDegree
    /\ degree \in 0..MaxDegree
    /\ \A i \in 1..Len(ops) :
          ops[i].op = "set_degree" => ops[i].arg \in 0..MaxDegree

\* A payload that parses to more than 180 has just been refused: no call
\* is made for it and the actuator stays at 0.
C18_Witness ==
    /\ log = <<"warn: Invalid degree">>
    /\ pc = "recv"
    /\ ops = <<>>
    /\ position = 0

(***************************************************************************)
(* C19: the commands outstanding.                                          *)
(***************************************************************************)

\* C19: the channel holds one payload at most and the Controller handles
\* one at most, two outstanding in all; and a write is refused as busy
\* exactly when the one slot of the channel is occupied at the send,
\* whether or not a sequence is running.
C19_BusyExactlyWhenFull ==
    /\ [](Len(chan) <= Capacity /\ InFlight <= Capacity + 1)
    /\ [][\A data \in Writable :
             OnWrite(data) => (log' = Busy <=> Len(chan) = Capacity)]_vars
====
